---- MODULE Spec2Model ----
(***************************************************************************)
(* The poster-revision workflow of the image-editing client: the state of  *)
(* the App component (src/App.tsx), the gates of the components that call  *)
(* its handlers (ConceptInput, PosterDisplay, PosterGallery, ImageEditor)  *)
(* and the calls of src/services/geminiService.ts that are in flight.      *)
(*                                                                         *)
(* One action is one run of the event loop: a user event with the handler  *)
(* it calls up to the handler's first await, or the settling of an awaited *)
(* promise with the rest of the handler.  The effects React runs after the *)
(* render that follows (useEffect) are part of the same action.            *)
(***************************************************************************)
EXTENDS Integers, Sequences, FiniteSets, TLC

\* ------------------------------------------------------------------ bounds

\* Date.now() is read once for every poster or candidate set that is created,
\* and the creations are far enough apart for every read to return a later
\* time than the one before.  The model reads the clock MaxNow times.
MaxNow == 3

\* Calls, image loads and queued files that may be waiting together.
MaxInFlight == 2

\* Files that may be waiting in the upload queue together.
MaxQueue == 1

\* Drags and resizes of the crop box in one use of the crop tool.
MaxMoves == 3

\* ------------------------------------------------------------------- state

VARIABLES
    now,                   \* the last value Date.now() returned
    products,              \* App: products
    posters,               \* App: posters (PosterHistory)
    activePosterId,        \* App: activePosterId
    isLoading,             \* App: isLoading {generating, modifying}
    error,                 \* App: error
    refinementVariations,  \* App: refinementVariations
    selectedVariationId,   \* PosterDisplay: selectedVariationId
    pendingFilters,        \* App: pendingFilters
    posterCropModal,       \* App: posterCropModal
    generates,             \* handleGenerate calls awaiting a promise
    refines,               \* handleRefine calls awaiting refinePoster
    modifications,         \* handleImageModification calls awaiting modificationFn
    filterLoads,           \* handleApplyFilters: images whose onload is pending
    cropLoads,             \* CropTool.handleApplyCrop: images whose onload is pending
    uploadQueue,           \* App: uploadQueue (file names)
    productToCrop,         \* App: productToCrop (the file's name, or null)
    productCropLoads,      \* CropTool.handleApplyCrop on a product: onload pending
    removals,              \* handleApplyProductCrop calls awaiting a promise
    last,                  \* history variable: the handler or completion that ran
                           \* last (event), the pending filters before it ran
                           \* (filters); for a variation request that settled,
                           \* its number (leg) and the legs of its refine call
                           \* as they are now (legs); for an upscale or expand
                           \* that succeeded, whether the poster it was requested
                           \* for was no longer the displayed one (stale); for
                           \* a call of setActivePosterId, its argument, and for
                           \* a background removal that settled, the id of its
                           \* product (arg)
    variationsBefore,      \* history variable: posters and activePosterId as they were
                           \* when the refine of the shown candidates was requested
    cropTool               \* CropTool: crop, activeAspectRatio, imageSize, the
                           \* aspectRatio it was given, whether the image of its
                           \* effect is loading, and the number of moves made

vars == <<now, products, posters, activePosterId, isLoading, error,
          refinementVariations, selectedVariationId, pendingFilters,
          posterCropModal, generates, refines, modifications, filterLoads,
          cropLoads, uploadQueue, productToCrop, productCropLoads, removals,
          last, variationsBefore, cropTool>>

\* The state of the product intake.
intakeVars == <<uploadQueue, productToCrop, productCropLoads, removals>>

\* JavaScript's null, for the nullable strings of the state.
null == "null"

\* ----------------------------------------------------------------- helpers

\* JavaScript numbers, as exact fractions <<numerator, denominator>> in lowest
\* terms with a positive denominator (rounding is not modelled).
RECURSIVE GCD(_, _)
GCD(a, b) == IF b = 0 THEN a ELSE GCD(b, a % b)

Abs(n) == IF n < 0 THEN -n ELSE n

\* n / d, d # 0
Q(n, d) ==
    LET g == GCD(Abs(n), Abs(d))
        s == IF d < 0 THEN -1 ELSE 1
    IN  <<(s * n) \div g, (s * d) \div g>>

Num(n) == <<n, 1>>
QAdd(a, b) == Q(a[1] * b[2] + b[1] * a[2], a[2] * b[2])
QSub(a, b) == Q(a[1] * b[2] - b[1] * a[2], a[2] * b[2])
QMul(a, b) == Q(a[1] * b[1], a[2] * b[2])
QDiv(a, b) == Q(a[1] * b[2], a[2] * b[1])
QLess(a, b) == a[1] * b[2] < b[1] * a[2]
QAbs(a) == <<Abs(a[1]), a[2]>>

\* No aspect ratio: the value `aspectRatio || null` and `if (aspect)` treat as
\* absent.
NoRatio == Num(0)

\* CropTool's state after its first render with the property aspectRatio:
\* useState({x: 0, y: 0, width: 100, height: 100}), useState(aspectRatio || null),
\* useState({width: 0, height: 0}); the effect has started loading the image.
CropToolMounted(aspectRatio) ==
    [crop |-> [x |-> Num(0), y |-> Num(0), width |-> Num(100), height |-> Num(100)],
     activeAspectRatio |-> aspectRatio,
     imageSize |-> [width |-> Num(0), height |-> Num(0)],
     aspectRatio |-> aspectRatio,
     loading |-> TRUE,
     moves |-> 0]

\* ImageFilters.tint = null
NoTint == [color |-> null, amount |-> 0]

DEFAULT_FILTERS ==
    [brightness |-> 100, contrast |-> 100, saturate |-> 100, tint |-> NoTint]

\* The adjustments the user sets in the model (ImageEditor sliders and tint).
FilterInputs ==
    { DEFAULT_FILTERS,
      [brightness |-> 120, contrast |-> 100, saturate |-> 100, tint |-> NoTint] }

\* String.prototype.trim on the strings the model enters.
Trim(s) == IF s \in {"", " "} THEN "" ELSE s

\* Array.prototype.find(p => p.id === id), as an index: 0 when there is none.
FindIndex(seq, id) ==
    LET hits == {i \in 1..Len(seq) : seq[i].id = id}
    IN  IF hits = {} THEN 0 ELSE CHOOSE i \in hits : \A j \in hits : i <= j

\* Mutant of Slice01: the oldest entry is kept (prev.slice(-1)).
SliceLast(prev) == IF Len(prev) >= 1 THEN <<prev[Len(prev)]>> ELSE <<>>

\* prev.slice(0, 1)
Slice01(prev) == IF Len(prev) >= 1 THEN <<prev[1]>> ELSE <<>>

\* Mutant of Prepend: the previous history is kept whole ([newPoster, ...prev]).
PrependNoTruncate(newPoster, prev) == <<newPoster>> \o prev

\* [newPoster, ...prev.slice(0, 1)]
Prepend(newPoster, prev) == <<newPoster>> \o Slice01(prev)

\* seq without its i-th element
Without(seq, i) == SubSeq(seq, 1, i - 1) \o SubSeq(seq, i + 1, Len(seq))

\* `poster-${Date.now()}`
PosterId(t) == "poster-" \o ToString(t)

\* `poster-variation-${Date.now()}-${index}` (index counts from 0)
VariationId(t, index) ==
    "poster-variation-" \o ToString(t) \o "-" \o ToString(index)

\* The image an operation returns: one image per call, named by the time of
\* the call's completion (src is opaque to the workflow).
ImageSrc(t) == "image-" \o ToString(t)

\* The image variation request `leg` (1 or 2) of a refine returns.
VariationSrc(t, leg) == "image-" \o ToString(t) \o "-leg" \o ToString(leg)

\* products.filter(p => p.processed)
ProcessedProducts == SelectSeq(products, LAMBDA p : p.processed # null)

\* App render: posters.find(p => p.id === activePosterId) || posters[0] || null
NoPoster == [id |-> null, src |-> null, prompt |-> null]

\* Mutant of ActivePoster: the newest poster is displayed, whatever id is active.
ActivePosterNewest == IF Len(posters) > 0 THEN posters[1] ELSE NoPoster

ActivePoster ==
    LET i == FindIndex(posters, activePosterId)
    IN  IF i > 0 THEN posters[i]
        ELSE IF Len(posters) > 0 THEN posters[1]
        ELSE NoPoster

\* Mutant of FiltersAfter: the effect that resets the pending filters is missing.
FiltersKept(newActiveId, filters) == filters

\* useEffect(..., [activePosterId]): pending filters are reset when the id changes.
FiltersAfter(newActiveId, filters) ==
    IF newActiveId # activePosterId THEN DEFAULT_FILTERS ELSE filters

\* PosterDisplay useEffect(..., [refinementVariations, selectedVariationId])
SelectedAfter(variations, selected) ==
    IF Len(variations) > 0 /\ selected = null THEN variations[1].id ELSE selected

\* The value of the history variable last after the step `name`.
Event(name) ==
    [event |-> name, legs |-> <<>>, leg |-> 0, stale |-> FALSE,
     filters |-> pendingFilters, arg |-> null]

\* posters and activePosterId at one moment (for the history variables)
Snapshot == [posters |-> posters, activePosterId |-> activePosterId]

NoSnapshot == [posters |-> <<>>, activePosterId |-> null]

\* The calls and image loads that have not settled yet, and the files that
\* wait for their crop.
InFlight ==
    Len(generates) + Len(refines) + Len(modifications) + Len(filterLoads)
        + Len(cropLoads) + Len(uploadQueue) + Len(productCropLoads)
        + Len(removals)

\* A call is started while the bounds leave room for it: fewer than MaxInFlight
\* are awaited, and every awaited call can still draw an id when it succeeds.
CanStart == InFlight < MaxInFlight /\ now + InFlight < MaxNow

\* ------------------------------------------------------------------- Init

\* The product the session starts with: uploaded, cropped, background removed.
InitialProduct ==
    [id |-> "shoe.png-0", processed |-> "data:image/png;base64,shoe",
     isProcessing |-> FALSE]

AppInit ==
    /\ now = 0
    /\ products = <<InitialProduct>>
    /\ posters = <<>>
    /\ activePosterId = null
    /\ isLoading = [generating |-> FALSE, modifying |-> FALSE]
    /\ error = null
    /\ refinementVariations = <<>>
    /\ selectedVariationId = null
    /\ pendingFilters = DEFAULT_FILTERS
    /\ posterCropModal = [isOpen |-> FALSE, src |-> null]
    /\ generates = <<>>
    /\ refines = <<>>
    /\ modifications = <<>>
    /\ filterLoads = <<>>
    /\ cropLoads = <<>>
    /\ uploadQueue = <<>>
    /\ productToCrop = null
    /\ productCropLoads = <<>>
    /\ removals = <<>>
    /\ last = Event("init")
    /\ variationsBefore = NoSnapshot

\* No crop tool is shown; the variable holds the state a tool would mount with.
Init == AppInit /\ cropTool = CropToolMounted(NoRatio)

\* ---------------------------------------------------------------- generate

Concepts == {"", " ", "neon sign"}

\* ConceptInput: disabled={products.every(p => !p.processed)}
GenerateDisabled == \A i \in 1..Len(products) : products[i].processed = null

\* ConceptInput.handleGenerateClick: concept.trim() && !isLoading && !disabled
CanGenerate(concept) ==
    /\ Trim(concept) # ""
    /\ ~isLoading.generating
    /\ ~GenerateDisabled

\* handleGenerate up to its first await
handleGenerate(concept, hasReference) ==
    /\ CanGenerate(concept)
    /\ CanStart
    /\ IF ProcessedProducts = <<>>
       THEN /\ error' = "Please upload and process at least one product image."
            /\ last' = Event("generate rejected")
            /\ UNCHANGED <<isLoading, generates>>
       ELSE /\ isLoading' = [generating |-> TRUE, modifying |-> FALSE]
            /\ error' = null
            /\ last' = Event("generate requested")
            /\ generates' = Append(generates,
                   [concept |-> concept,
                    stage |-> IF hasReference THEN "reference" ELSE "service"])
    /\ UNCHANGED <<now, products, posters, activePosterId, refinementVariations,
                   selectedVariationId, pendingFilters, posterCropModal, refines,
                   modifications, filterLoads, cropLoads, variationsBefore>>
    /\ UNCHANGED intakeVars
    /\ UNCHANGED cropTool

\* A press of the Generate button that handleGenerateClick does not pass on
\* (the button is disabled under the same condition): nothing runs.
GenerateBlocked(concept) ==
    /\ ~CanGenerate(concept)
    /\ last' = Event("generate blocked")
    /\ UNCHANGED <<now, products, posters, activePosterId, isLoading, error,
                   refinementVariations, selectedVariationId, pendingFilters,
                   posterCropModal, generates, refines, modifications,
                   filterLoads, cropLoads, variationsBefore>>
    /\ UNCHANGED intakeVars
    /\ UNCHANGED cropTool

\* handleGenerate: getBase64AndMimeType(referenceImageFile) settles
GenerateReferenceRead(g, ok) ==
    /\ g \in 1..Len(generates)
    /\ generates[g].stage = "reference"
    /\ IF ok
       THEN /\ generates' = [generates EXCEPT ![g].stage = "service"]
            /\ last' = Event("generate reference read")
            /\ UNCHANGED <<error, isLoading>>
       ELSE \* reader.onerror rejects with an event, which has no message
            /\ generates' = Without(generates, g)
            /\ last' = Event("generate failed")
            /\ error' = "Failed to generate poster. Please try again."
            /\ isLoading' = [generating |-> FALSE, modifying |-> FALSE]
    /\ UNCHANGED <<now, products, posters, activePosterId, refinementVariations,
                   selectedVariationId, pendingFilters, posterCropModal, refines,
                   modifications, filterLoads, cropLoads, variationsBefore>>
    /\ UNCHANGED intakeVars
    /\ UNCHANGED cropTool

\* Mutant of GenerateResponse: the finally block is skipped when generatePoster
\* throws.
GenerateResponseNoFinally(g, ok) ==
    /\ g \in 1..Len(generates)
    /\ generates[g].stage = "service"
    /\ generates' = Without(generates, g)
    /\ IF ok
       THEN /\ now < MaxNow
            /\ now' = now + 1
            /\ isLoading' = [generating |-> FALSE, modifying |-> FALSE]
            /\ LET newPoster == [id |-> PosterId(now'), src |-> ImageSrc(now'),
                                 prompt |-> generates[g].concept]
               IN  /\ posters' = Prepend(newPoster, posters)
                   /\ activePosterId' = newPoster.id
                   /\ pendingFilters' = FiltersAfter(newPoster.id, pendingFilters)
            /\ last' = Event("generate succeeded")
            /\ UNCHANGED error
       ELSE /\ error' = "Failed to generate the poster."
            /\ last' = Event("generate failed")
            /\ UNCHANGED <<now, posters, activePosterId, pendingFilters, isLoading>>
    /\ UNCHANGED <<products, refinementVariations, selectedVariationId,
                   posterCropModal, refines, modifications, filterLoads, cropLoads, variationsBefore>>
    /\ UNCHANGED intakeVars
    /\ UNCHANGED cropTool

\* handleGenerate: generatePoster settles
GenerateResponse(g, ok) ==
    /\ g \in 1..Len(generates)
    /\ generates[g].stage = "service"
    /\ generates' = Without(generates, g)
    /\ isLoading' = [generating |-> FALSE, modifying |-> FALSE]
    /\ IF ok
       THEN /\ now < MaxNow
            /\ now' = now + 1
            /\ LET newPoster == [id |-> PosterId(now'), src |-> ImageSrc(now'),
                                 prompt |-> generates[g].concept]
               IN  /\ posters' = Prepend(newPoster, posters)
                   /\ activePosterId' = newPoster.id
                   /\ pendingFilters' = FiltersAfter(newPoster.id, pendingFilters)
            /\ last' = Event("generate succeeded")
            /\ UNCHANGED error
       ELSE \* generatePoster throws Error("Failed to generate the poster.")
            /\ error' = "Failed to generate the poster."
            /\ last' = Event("generate failed")
            /\ UNCHANGED <<now, posters, activePosterId, pendingFilters>>
    /\ UNCHANGED <<products, refinementVariations, selectedVariationId,
                   posterCropModal, refines, modifications, filterLoads, cropLoads, variationsBefore>>
    /\ UNCHANGED intakeVars
    /\ UNCHANGED cropTool

\* ------------------------------------------------------------------ refine

RefinePrompts == {" ", "beach sunset"}

\* Mutant of CanRefine: the prompt is not trimmed before the test.
CanRefineNoTrim(prompt) ==
    /\ Len(refinementVariations) = 0
    /\ ActivePoster # NoPoster
    /\ prompt # ""
    /\ ~isLoading.modifying

\* PosterDisplay: the prompt input is rendered when no variation is shown and a
\* poster is displayed; handleRefineClick:
\* refinementPrompt.trim() && activePoster && !isModifying
CanRefine(prompt) ==
    /\ Len(refinementVariations) = 0
    /\ ActivePoster # NoPoster
    /\ Trim(prompt) # ""
    /\ ~isLoading.modifying

\* handleRefine up to its await of refinePoster, which issues the two
\* generateVariation requests ("legs") at once.
handleRefine(prompt) ==
    /\ CanRefine(prompt)
    /\ CanStart
    /\ IF FindIndex(posters, activePosterId) = 0
       THEN /\ last' = Event("refine ignored")
            /\ UNCHANGED <<isLoading, error, refinementVariations, refines>>
       ELSE /\ isLoading' = [isLoading EXCEPT !.modifying = TRUE]
            /\ error' = null
            /\ refinementVariations' = <<>>
            /\ refines' = Append(refines,
                   [prompt |-> prompt,
                    base |-> posters[FindIndex(posters, activePosterId)].src,
                    legs |-> <<"pending", "pending">>,
                    before |-> Snapshot])
            /\ last' = Event("refine requested")
    /\ UNCHANGED <<now, products, posters, activePosterId, selectedVariationId,
                   pendingFilters, posterCropModal, generates, modifications,
                   filterLoads, cropLoads, variationsBefore>>
    /\ UNCHANGED intakeVars
    /\ UNCHANGED cropTool

\* PosterDisplay.handleKeyPress: Enter in the prompt input (enabled while no
\* modification runs) with a prompt that handleRefineClick does not pass on.
RefineBlocked(prompt) ==
    /\ Len(refinementVariations) = 0
    /\ ActivePoster # NoPoster
    /\ ~isLoading.modifying
    /\ ~CanRefine(prompt)
    /\ last' = Event("refine blocked")
    /\ UNCHANGED <<now, products, posters, activePosterId, isLoading, error,
                   refinementVariations, selectedVariationId, pendingFilters,
                   posterCropModal, generates, refines, modifications,
                   filterLoads, cropLoads, variationsBefore>>
    /\ UNCHANGED intakeVars
    /\ UNCHANGED cropTool

\* What a generateVariation request settles with: an image, no image part in
\* the response (it returns null), or a rejection of generateContent.
LegOutcomes == {"image", "none", "error"}

\* Promise.all([generateVariation(), generateVariation()]): rejected as soon as
\* one leg rejects, fulfilled when both are fulfilled.
PromiseAll(legs) ==
    IF \E k \in 1..Len(legs) : legs[k] = "error" THEN "rejected"
    ELSE IF \E k \in 1..Len(legs) : legs[k] = "pending" THEN "pending"
    ELSE "fulfilled"

\* Mutant of RefineResults: the second request's image is listed first.
RefineResultsReversed(legs) == SelectSeq(<<2, 1>>, LAMBDA k : legs[k] = "image")

\* [variation1, variation2].filter(v => v !== null), as the legs that returned
\* an image, in the order the requests were issued.
RefineResults(legs) == SelectSeq(<<1, 2>>, LAMBDA k : legs[k] = "image")

\* refinedPosterBase64s.map((base64, index) => ({id, src, prompt}))
NewVariations(results, t, prompt) ==
    [k \in 1..Len(results) |->
        [id |-> VariationId(t, k - 1), src |-> VariationSrc(t, results[k]),
         prompt |-> prompt]]

\* Mutant of RefineOutcome: the test results.length === 0 is missing.
RefineOutcomeNoEmptyCheck(legs) ==
    CASE PromiseAll(legs) = "pending" -> "pending"
      [] PromiseAll(legs) = "rejected" -> "failed"
      [] OTHER -> "variations"

\* What refinePoster settles with once `legs` are known: "pending", "variations"
\* (it returns results) or "failed" (it throws "Failed to refine the poster.").
RefineOutcome(legs) ==
    CASE PromiseAll(legs) = "pending" -> "pending"
      [] PromiseAll(legs) = "rejected" -> "failed"
      [] OTHER -> IF Len(RefineResults(legs)) = 0 THEN "failed" ELSE "variations"

\* Mutant of RefinesAfter: a generateVariation request that was rejected is
\* issued again.
RefinesAfterRetries(r, legs) ==
    [refines EXCEPT ![r].legs =
        [k \in 1..Len(legs) |-> IF legs[k] = "error" THEN "pending" ELSE legs[k]]]

\* The refine calls still to be tracked after call r's legs became `legs`.
RefinesAfter(r, legs) ==
    IF \E k \in 1..Len(legs) : legs[k] = "pending"
    THEN [refines EXCEPT ![r].legs = legs]
    ELSE Without(refines, r)

\* One generateVariation request of refine call r settles; when that settles
\* refinePoster, the rest of handleRefine runs.
VariationResponse(r, leg, outcome) ==
    /\ r \in 1..Len(refines)
    /\ refines[r].legs[leg] = "pending"
    /\ LET call == refines[r]
           legs == [call.legs EXCEPT ![leg] = outcome]
       IN  /\ refines' = RefinesAfter(r, legs)
           /\ IF RefineOutcome(call.legs) # "pending"
              THEN \* refinePoster has settled already: the result is dropped
                   /\ last' = [Event("variation dropped") EXCEPT !.legs = legs, !.leg = leg]
                   /\ UNCHANGED <<now, isLoading, error, refinementVariations,
                                  selectedVariationId, variationsBefore>>
              ELSE CASE RefineOutcome(legs) = "pending" ->
                        /\ last' = [Event("variation awaited") EXCEPT !.legs = legs, !.leg = leg]
                        /\ UNCHANGED <<now, isLoading, error, refinementVariations,
                                       selectedVariationId, variationsBefore>>
                     [] RefineOutcome(legs) = "failed" ->
                        /\ error' = "Failed to refine the poster."
                        /\ isLoading' = [isLoading EXCEPT !.modifying = FALSE]
                        /\ last' = [Event("refine failed") EXCEPT !.legs = legs, !.leg = leg]
                        /\ UNCHANGED <<now, refinementVariations,
                                       selectedVariationId, variationsBefore>>
                     [] OTHER ->
                        /\ now < MaxNow
                        /\ now' = now + 1
                        /\ refinementVariations' =
                               NewVariations(RefineResults(legs), now', call.prompt)
                        /\ selectedVariationId' =
                               SelectedAfter(refinementVariations', selectedVariationId)
                        /\ isLoading' = [isLoading EXCEPT !.modifying = FALSE]
                        /\ variationsBefore' = call.before
                        /\ last' = [Event("refine succeeded") EXCEPT !.legs = legs, !.leg = leg]
                        /\ UNCHANGED error
    /\ UNCHANGED <<products, posters, activePosterId, pendingFilters,
                   posterCropModal, generates, modifications, filterLoads,
                   cropLoads>>
    /\ UNCHANGED intakeVars
    /\ UNCHANGED cropTool

\* PosterDisplay: onClick={() => setSelectedVariationId(variation.id)}
SelectVariation(i) ==
    /\ i \in 1..Len(refinementVariations)
    /\ selectedVariationId' = refinementVariations[i].id
    /\ last' = Event("variation selected")
    /\ UNCHANGED <<now, products, posters, activePosterId, isLoading, error,
                   refinementVariations, pendingFilters, posterCropModal,
                   generates, refines, modifications, filterLoads, cropLoads,
                   variationsBefore>>
    /\ UNCHANGED intakeVars
    /\ UNCHANGED cropTool

\* Mutant of handleConfirmRefinement: setActivePosterId(poster.id) is missing.
handleConfirmRefinementNoActivate(poster) ==
    /\ posters' = Prepend(poster, posters)
    /\ refinementVariations' = <<>>
    /\ UNCHANGED <<activePosterId, pendingFilters>>

\* Mutant of handleConfirmRefinement: the confirmed poster replaces the history.
handleConfirmRefinementReplaces(poster) ==
    /\ posters' = <<poster>>
    /\ activePosterId' = poster.id
    /\ refinementVariations' = <<>>
    /\ pendingFilters' = FiltersAfter(poster.id, pendingFilters)

\* handleConfirmRefinement(poster)
handleConfirmRefinement(poster) ==
    /\ posters' = Prepend(poster, posters)
    /\ activePosterId' = poster.id
    /\ refinementVariations' = <<>>
    /\ pendingFilters' = FiltersAfter(poster.id, pendingFilters)

\* PosterDisplay.handleConfirm, behind the Confirm button
\* (disabled={!selectedVariationId}) of the variation chooser
handleConfirm ==
    /\ Len(refinementVariations) > 0
    /\ selectedVariationId # null
    /\ IF FindIndex(refinementVariations, selectedVariationId) > 0
       THEN /\ handleConfirmRefinement(
                   refinementVariations[
                       FindIndex(refinementVariations, selectedVariationId)])
            /\ selectedVariationId' = null
            /\ variationsBefore' = NoSnapshot
            /\ last' = Event("refinement confirmed")
       ELSE /\ last' = Event("confirm ignored")
            /\ UNCHANGED <<posters, activePosterId, refinementVariations,
                           pendingFilters, selectedVariationId, variationsBefore>>
    /\ UNCHANGED <<now, products, isLoading, error, posterCropModal, generates,
                   refines, modifications, filterLoads, cropLoads>>
    /\ UNCHANGED intakeVars
    /\ UNCHANGED cropTool

\* Mutant of handleCancelRefinement: cancelling also clears the active id.
handleCancelRefinementDeactivates ==
    /\ refinementVariations' = <<>>
    /\ activePosterId' = null
    /\ pendingFilters' = FiltersAfter(null, pendingFilters)
    /\ UNCHANGED posters

\* handleCancelRefinement
handleCancelRefinement ==
    /\ refinementVariations' = <<>>
    /\ UNCHANGED <<posters, activePosterId, pendingFilters>>

\* PosterDisplay.handleCancel, behind the Cancel button of the variation chooser
handleCancel ==
    /\ Len(refinementVariations) > 0
    /\ handleCancelRefinement
    /\ selectedVariationId' = null
    /\ variationsBefore' = NoSnapshot
    /\ last' = Event("refinement cancelled")
    /\ UNCHANGED <<now, products, isLoading, error, posterCropModal, generates,
                   refines, modifications, filterLoads, cropLoads>>
    /\ UNCHANGED intakeVars
    /\ UNCHANGED cropTool

\* ------------------------------------------------------- upscale and expand

\* upscalePoster(currentPoster, scale); the types allow scale 2 | 4
Scales == {2, 4}

\* expandPoster(currentPoster, direction, size); the model expands one way
ExpandDirections == {"all"}
ExpandSizes == {25}

\* handleImageModification(modificationFn, prompt) up to its await
handleImageModification(modificationFn, prompt) ==
    /\ isLoading' = [isLoading EXCEPT !.modifying = TRUE]
    /\ error' = null
    /\ modifications' = Append(modifications,
           [fn |-> modificationFn, prompt |-> prompt])

\* Mutant of handleUpscale: the test of activePoster is missing and the
\* displayed poster is used.
handleUpscaleUnchecked(scale) ==
    /\ CanStart
    /\ handleImageModification(
           [op |-> "upscale", base |-> ActivePoster.src,
            failure |-> "Failed to upscale the poster " \o ToString(scale) \o "x."],
           "Upscaled " \o ToString(scale) \o "x")
    /\ last' = Event("upscale requested")
    /\ UNCHANGED <<now, products, posters, activePosterId, refinementVariations,
                   selectedVariationId, pendingFilters, posterCropModal,
                   generates, refines, filterLoads, cropLoads, variationsBefore>>
    /\ UNCHANGED intakeVars
    /\ UNCHANGED cropTool

\* handleUpscale(scale)
handleUpscale(scale) ==
    /\ CanStart
    /\ IF FindIndex(posters, activePosterId) = 0
       THEN /\ last' = Event("upscale ignored")
            /\ UNCHANGED <<isLoading, error, modifications>>
       ELSE /\ handleImageModification(
                   [op |-> "upscale",
                    base |-> posters[FindIndex(posters, activePosterId)].src,
                    failure |-> "Failed to upscale the poster "
                                    \o ToString(scale) \o "x."],
                   "Upscaled " \o ToString(scale) \o "x")
            /\ last' = Event("upscale requested")
    /\ UNCHANGED <<now, products, posters, activePosterId, refinementVariations,
                   selectedVariationId, pendingFilters, posterCropModal,
                   generates, refines, filterLoads, cropLoads, variationsBefore>>
    /\ UNCHANGED intakeVars
    /\ UNCHANGED cropTool

\* handleExpand(direction, size)
handleExpand(direction, size) ==
    /\ CanStart
    /\ IF FindIndex(posters, activePosterId) = 0
       THEN /\ last' = Event("expand ignored")
            /\ UNCHANGED <<isLoading, error, modifications>>
       ELSE /\ handleImageModification(
                   [op |-> "expand",
                    base |-> posters[FindIndex(posters, activePosterId)].src,
                    failure |-> "Failed to expand the poster."],
                   "Expanded image (" \o direction \o " "
                       \o ToString(size) \o "%)")
            /\ last' = Event("expand requested")
    /\ UNCHANGED <<now, products, posters, activePosterId, refinementVariations,
                   selectedVariationId, pendingFilters, posterCropModal,
                   generates, refines, filterLoads, cropLoads, variationsBefore>>
    /\ UNCHANGED intakeVars
    /\ UNCHANGED cropTool

\* Mutant of ModificationResponse: the catch block does not call setError.
ModificationResponseSilent(m, ok) ==
    /\ m \in 1..Len(modifications)
    /\ modifications' = Without(modifications, m)
    /\ isLoading' = [isLoading EXCEPT !.modifying = FALSE]
    /\ IF ok
       THEN /\ now < MaxNow
            /\ now' = now + 1
            /\ LET newPoster == [id |-> PosterId(now'), src |-> ImageSrc(now'),
                                 prompt |-> modifications[m].prompt]
               IN  /\ posters' = Prepend(newPoster, posters)
                   /\ activePosterId' = newPoster.id
                   /\ pendingFilters' = FiltersAfter(newPoster.id, pendingFilters)
            /\ last' = Event(modifications[m].fn.op \o " succeeded")
            /\ UNCHANGED error
       ELSE /\ last' = Event(modifications[m].fn.op \o " failed")
            /\ UNCHANGED <<error, now, posters, activePosterId, pendingFilters>>
    /\ UNCHANGED <<products, refinementVariations, selectedVariationId,
                   posterCropModal, generates, refines, filterLoads, cropLoads,
                   variationsBefore>>
    /\ UNCHANGED intakeVars
    /\ UNCHANGED cropTool

\* Mutant of ModificationResponse: the new poster is made active only when the
\* poster the request was made for is still the displayed one.
ModificationResponseKeepsSelection(m, ok) ==
    /\ m \in 1..Len(modifications)
    /\ modifications' = Without(modifications, m)
    /\ isLoading' = [isLoading EXCEPT !.modifying = FALSE]
    /\ IF ok
       THEN /\ now < MaxNow
            /\ now' = now + 1
            /\ LET newPoster == [id |-> PosterId(now'), src |-> ImageSrc(now'),
                                 prompt |-> modifications[m].prompt]
                   newActiveId == IF ActivePoster.src # modifications[m].fn.base
                                  THEN activePosterId ELSE newPoster.id
               IN  /\ posters' = Prepend(newPoster, posters)
                   /\ activePosterId' = newActiveId
                   /\ pendingFilters' = FiltersAfter(newActiveId, pendingFilters)
            /\ last' = [Event(modifications[m].fn.op \o " succeeded")
                           EXCEPT !.stale = (ActivePoster.src # modifications[m].fn.base)]
            /\ UNCHANGED error
       ELSE /\ error' = modifications[m].fn.failure
            /\ last' = Event(modifications[m].fn.op \o " failed")
            /\ UNCHANGED <<now, posters, activePosterId, pendingFilters>>
    /\ UNCHANGED <<products, refinementVariations, selectedVariationId,
                   posterCropModal, generates, refines, filterLoads, cropLoads,
                   variationsBefore>>
    /\ UNCHANGED intakeVars
    /\ UNCHANGED cropTool

\* handleImageModification: modificationFn() settles
ModificationResponse(m, ok) ==
    /\ m \in 1..Len(modifications)
    /\ modifications' = Without(modifications, m)
    /\ isLoading' = [isLoading EXCEPT !.modifying = FALSE]
    /\ IF ok
       THEN /\ now < MaxNow
            /\ now' = now + 1
            /\ LET newPoster == [id |-> PosterId(now'), src |-> ImageSrc(now'),
                                 prompt |-> modifications[m].prompt]
               IN  /\ posters' = Prepend(newPoster, posters)
                   /\ activePosterId' = newPoster.id
                   /\ pendingFilters' = FiltersAfter(newPoster.id, pendingFilters)
            /\ last' = [Event(modifications[m].fn.op \o " succeeded")
                           EXCEPT !.stale = (ActivePoster.src # modifications[m].fn.base)]
            /\ UNCHANGED error
       ELSE /\ error' = modifications[m].fn.failure
            /\ last' = Event(modifications[m].fn.op \o " failed")
            /\ UNCHANGED <<now, posters, activePosterId, pendingFilters>>
    /\ UNCHANGED <<products, refinementVariations, selectedVariationId,
                   posterCropModal, generates, refines, filterLoads, cropLoads,
                   variationsBefore>>
    /\ UNCHANGED intakeVars
    /\ UNCHANGED cropTool

\* ------------------------------------------------------------- adjustments

\* ImageEditor: onFilterChange={setPendingFilters}, onReset
FilterChange(filters) ==
    /\ pendingFilters # filters
    /\ pendingFilters' = filters
    /\ last' = Event("filters changed")
    /\ UNCHANGED <<now, products, posters, activePosterId, isLoading, error,
                   refinementVariations, selectedVariationId, posterCropModal,
                   generates, refines, modifications, filterLoads, cropLoads,
                   variationsBefore>>
    /\ UNCHANGED intakeVars
    /\ UNCHANGED cropTool

\* handleApplyFilters up to img.onload, behind the Apply button of ImageEditor
\* (disabled={!activePoster})
handleApplyFilters ==
    /\ ActivePoster # NoPoster
    /\ CanStart
    /\ IF FindIndex(posters, activePosterId) = 0
       THEN /\ last' = Event("apply ignored")
            /\ UNCHANGED filterLoads
       ELSE /\ filterLoads' = Append(filterLoads,
                   [base |-> posters[FindIndex(posters, activePosterId)].src,
                    filters |-> pendingFilters])
            /\ last' = Event("apply requested")
    /\ UNCHANGED <<now, products, posters, activePosterId, isLoading, error,
                   refinementVariations, selectedVariationId, pendingFilters,
                   posterCropModal, generates, refines, modifications, cropLoads,
                   variationsBefore>>
    /\ UNCHANGED intakeVars
    /\ UNCHANGED cropTool

\* Mutant of FilterOnload: setActivePosterId(newPoster.id) is missing.
FilterOnloadNoActivate(f) ==
    /\ f \in 1..Len(filterLoads)
    /\ now < MaxNow
    /\ now' = now + 1
    /\ filterLoads' = Without(filterLoads, f)
    /\ LET newPoster == [id |-> PosterId(now'), src |-> ImageSrc(now'),
                         prompt |-> "Applied image adjustments"]
       IN  posters' = Prepend(newPoster, posters)
    /\ pendingFilters' = DEFAULT_FILTERS
    /\ last' = Event("adjustments applied")
    /\ UNCHANGED <<products, activePosterId, isLoading, error,
                   refinementVariations, selectedVariationId, posterCropModal,
                   generates, refines, modifications, cropLoads,
                   variationsBefore>>
    /\ UNCHANGED intakeVars
    /\ UNCHANGED cropTool

\* handleApplyFilters: img.onload
FilterOnload(f) ==
    /\ f \in 1..Len(filterLoads)
    /\ now < MaxNow
    /\ now' = now + 1
    /\ filterLoads' = Without(filterLoads, f)
    /\ LET newPoster == [id |-> PosterId(now'), src |-> ImageSrc(now'),
                         prompt |-> "Applied image adjustments"]
       IN  /\ posters' = Prepend(newPoster, posters)
           /\ activePosterId' = newPoster.id
    /\ pendingFilters' = DEFAULT_FILTERS
    /\ last' = Event("adjustments applied")
    /\ UNCHANGED <<products, isLoading, error, refinementVariations,
                   selectedVariationId, posterCropModal, generates, refines,
                   modifications, cropLoads, variationsBefore>>
    /\ UNCHANGED intakeVars
    /\ UNCHANGED cropTool

\* ------------------------------------------------------------------ gallery

\* PosterGallery: onSelect={setActivePosterId} on posters.slice(0, 2)
SelectPoster(i) ==
    /\ i \in 1..Len(posters)
    /\ i <= 2
    /\ activePosterId' = posters[i].id
    /\ pendingFilters' = FiltersAfter(posters[i].id, pendingFilters)
    /\ last' = Event("poster selected")
    /\ UNCHANGED <<now, products, posters, isLoading, error,
                   refinementVariations, selectedVariationId, posterCropModal,
                   generates, refines, modifications, filterLoads, cropLoads,
                   variationsBefore>>
    /\ UNCHANGED intakeVars
    /\ UNCHANGED cropTool

\* -------------------------------------------------------------- poster crop

\* handleOpenPosterCropModal
handleOpenPosterCropModal ==
    /\ IF FindIndex(posters, activePosterId) = 0
       THEN /\ last' = Event("crop ignored")
            /\ UNCHANGED posterCropModal
       ELSE /\ posterCropModal' =
                   [isOpen |-> TRUE,
                    src |-> posters[FindIndex(posters, activePosterId)].src]
            /\ last' = Event("crop opened")
    /\ UNCHANGED <<now, products, posters, activePosterId, isLoading, error,
                   refinementVariations, selectedVariationId, pendingFilters,
                   generates, refines, modifications, filterLoads, cropLoads,
                   variationsBefore>>
    /\ UNCHANGED intakeVars
    /\ UNCHANGED cropTool

\* Mutant of handleClosePosterCropModal: the modal is left as it is.
handleClosePosterCropModalKeepsOpen == posterCropModal' = posterCropModal

\* handleClosePosterCropModal
handleClosePosterCropModal == posterCropModal' = [isOpen |-> FALSE, src |-> null]

\* CropTool: onClose, on the tool rendered for posterCropModal
\* (posterCropModal.isOpen && posterCropModal.src)
CropCancel ==
    /\ posterCropModal.isOpen
    /\ posterCropModal.src # null
    /\ handleClosePosterCropModal
    /\ last' = Event("crop closed")
    /\ UNCHANGED <<now, products, posters, activePosterId, isLoading, error,
                   refinementVariations, selectedVariationId, pendingFilters,
                   generates, refines, modifications, filterLoads, cropLoads,
                   variationsBefore>>
    /\ UNCHANGED intakeVars
    /\ UNCHANGED cropTool

\* CropTool.handleApplyCrop up to image.onload, on the same tool
handleApplyCrop ==
    /\ posterCropModal.isOpen
    /\ posterCropModal.src # null
    /\ CanStart
    /\ cropLoads' = Append(cropLoads, [src |-> posterCropModal.src])
    /\ last' = Event("crop requested")
    /\ UNCHANGED <<now, products, posters, activePosterId, isLoading, error,
                   refinementVariations, selectedVariationId, pendingFilters,
                   posterCropModal, generates, refines, modifications,
                   filterLoads, variationsBefore>>
    /\ UNCHANGED intakeVars
    /\ UNCHANGED cropTool

\* CropTool.handleApplyCrop: image.onload calls onCrop, which is
\* handleApplyPosterCrop(croppedImageSrc)
handleApplyPosterCrop(c) ==
    /\ c \in 1..Len(cropLoads)
    /\ now < MaxNow
    /\ now' = now + 1
    /\ cropLoads' = Without(cropLoads, c)
    /\ LET newPoster == [id |-> PosterId(now'), src |-> ImageSrc(now'),
                         prompt |-> "Cropped image"]
       IN  /\ posters' = Prepend(newPoster, posters)
           /\ activePosterId' = newPoster.id
           /\ pendingFilters' = FiltersAfter(newPoster.id, pendingFilters)
    /\ handleClosePosterCropModal
    /\ last' = Event("crop applied")
    /\ UNCHANGED <<products, isLoading, error, refinementVariations,
                   selectedVariationId, generates, refines, modifications,
                   filterLoads, variationsBefore>>
    /\ UNCHANGED intakeVars
    /\ UNCHANGED cropTool

\* ---------------------------------------------------------- product intake

\* The lists of files a user selects or drops at once.
FileLists == {<<"hat.png">>}

\* useEffect(..., [uploadQueue, productToCrop]): the next file of the queue is
\* opened in the crop tool when no file is being cropped.
ProductToCropAfter(queue, toCrop) ==
    IF Len(queue) > 0 /\ toCrop = null THEN queue[1] ELSE toCrop

\* q.slice(1)
Slice1(q) == SubSeq(q, 2, Len(q))

\* handleFileSelect(files)
handleFileSelect(files) ==
    /\ Len(uploadQueue) + Len(files) <= MaxQueue
    /\ CanStart
    /\ uploadQueue' = uploadQueue \o files
    /\ productToCrop' = ProductToCropAfter(uploadQueue', productToCrop)
    /\ last' = Event("files selected")
    /\ UNCHANGED <<now, products, posters, activePosterId, isLoading, error,
                   refinementVariations, selectedVariationId, pendingFilters,
                   posterCropModal, generates, refines, modifications,
                   filterLoads, cropLoads, productCropLoads, removals,
                   variationsBefore>>
    /\ UNCHANGED cropTool

\* handleCancelProductCrop, behind the Cancel and close buttons of the crop
\* tool that is shown while productToCrop is set
handleCancelProductCrop ==
    /\ productToCrop # null
    /\ uploadQueue' = Slice1(uploadQueue)
    /\ productToCrop' = ProductToCropAfter(uploadQueue', null)
    /\ last' = Event("product crop cancelled")
    /\ UNCHANGED <<now, products, posters, activePosterId, isLoading, error,
                   refinementVariations, selectedVariationId, pendingFilters,
                   posterCropModal, generates, refines, modifications,
                   filterLoads, cropLoads, productCropLoads, removals,
                   variationsBefore>>
    /\ UNCHANGED cropTool

\* CropTool.handleApplyCrop up to image.onload, in the crop tool of a product;
\* onCrop is the handleApplyProductCrop of this render, which holds this
\* render's productToCrop
handleApplyCropOfProduct ==
    /\ productToCrop # null
    /\ CanStart
    /\ productCropLoads' = Append(productCropLoads, [file |-> productToCrop])
    /\ last' = Event("product crop requested")
    /\ UNCHANGED <<now, products, posters, activePosterId, isLoading, error,
                   refinementVariations, selectedVariationId, pendingFilters,
                   posterCropModal, generates, refines, modifications,
                   filterLoads, cropLoads, uploadQueue, productToCrop, removals,
                   variationsBefore>>
    /\ UNCHANGED cropTool

\* `${file.name}-${Date.now()}`
ProductId(file, t) == file \o "-" \o ToString(t)

\* image.onload of the crop tool: handleApplyProductCrop up to its first await
handleApplyProductCrop(c) ==
    /\ c \in 1..Len(productCropLoads)
    /\ now < MaxNow
    /\ now' = now + 1
    /\ productCropLoads' = Without(productCropLoads, c)
    /\ LET file == productCropLoads[c].file
           newProduct == [id |-> ProductId(file, now'), processed |-> null,
                          isProcessing |-> TRUE]
       IN  /\ products' = Append(products, newProduct)
           /\ removals' = Append(removals,
                  [id |-> newProduct.id, file |-> file, stage |-> "blob"])
    /\ uploadQueue' = Slice1(uploadQueue)
    /\ productToCrop' = ProductToCropAfter(uploadQueue', null)
    /\ last' = Event("product added")
    /\ UNCHANGED <<posters, activePosterId, isLoading, error,
                   refinementVariations, selectedVariationId, pendingFilters,
                   posterCropModal, generates, refines, modifications,
                   filterLoads, cropLoads, variationsBefore>>
    /\ UNCHANGED cropTool

\* prev.map(p => p.id === id ? { ...p, isProcessing: false } : p)
ProcessingEnded(prev, id) ==
    [i \in 1..Len(prev) |->
        IF prev[i].id = id THEN [prev[i] EXCEPT !.isProcessing = FALSE]
        ELSE prev[i]]

\* Mutant of Processed: a product that is no longer listed is listed again.
ProcessedUpserts(prev, id, processedSrc) ==
    IF \E i \in 1..Len(prev) : prev[i].id = id
    THEN [i \in 1..Len(prev) |->
             IF prev[i].id = id
             THEN [prev[i] EXCEPT !.processed = processedSrc, !.isProcessing = FALSE]
             ELSE prev[i]]
    ELSE Append(prev, [id |-> id, processed |-> processedSrc, isProcessing |-> FALSE])

\* prev.map(p => p.id === id ? { ...p, processed, isProcessing: false } : p)
Processed(prev, id, processedSrc) ==
    [i \in 1..Len(prev) |->
        IF prev[i].id = id
        THEN [prev[i] EXCEPT !.processed = processedSrc, !.isProcessing = FALSE]
        ELSE prev[i]]

\* Mutant of RemovalFailed: the catch block leaves the product as it is.
RemovalFailedKeepsProcessing(r) ==
    /\ error' = "Failed to process image: " \o removals[r].file
    /\ products' = products
    /\ removals' = Without(removals, r)
    /\ last' = [Event("removal failed") EXCEPT !.arg = removals[r].id]

\* handleApplyProductCrop: the catch block
RemovalFailed(r) ==
    /\ error' = "Failed to process image: " \o removals[r].file
    /\ products' = ProcessingEnded(products, removals[r].id)
    /\ removals' = Without(removals, r)
    /\ last' = [Event("removal failed") EXCEPT !.arg = removals[r].id]

\* handleApplyProductCrop: the cropped image has been fetched and read
RemovalBlobRead(r, ok) ==
    /\ r \in 1..Len(removals)
    /\ removals[r].stage = "blob"
    /\ IF ok
       THEN /\ removals' = [removals EXCEPT ![r].stage = "service"]
            /\ last' = Event("removal requested")
            /\ UNCHANGED <<error, products>>
       ELSE RemovalFailed(r)
    /\ UNCHANGED <<now, posters, activePosterId, isLoading,
                   refinementVariations, selectedVariationId, pendingFilters,
                   posterCropModal, generates, refines, modifications,
                   filterLoads, cropLoads, uploadQueue, productToCrop,
                   productCropLoads, variationsBefore>>
    /\ UNCHANGED cropTool

\* handleApplyProductCrop: removeBackground settles
RemovalResponse(r, ok) ==
    /\ r \in 1..Len(removals)
    /\ removals[r].stage = "service"
    /\ IF ok
       THEN /\ products' = Processed(products, removals[r].id,
                               "data:image/png;base64," \o removals[r].id)
            /\ removals' = Without(removals, r)
            /\ last' = [Event("removal succeeded") EXCEPT !.arg = removals[r].id]
            /\ UNCHANGED error
       ELSE RemovalFailed(r)
    /\ UNCHANGED <<now, posters, activePosterId, isLoading,
                   refinementVariations, selectedVariationId, pendingFilters,
                   posterCropModal, generates, refines, modifications,
                   filterLoads, cropLoads, uploadQueue, productToCrop,
                   productCropLoads, variationsBefore>>
    /\ UNCHANGED cropTool

\* ------------------------------------------------------- products and error

\* handleProductRemove(id)
handleProductRemove(id) ==
    /\ \E i \in 1..Len(products) : products[i].id = id
    /\ products' = SelectSeq(products, LAMBDA p : p.id # id)
    /\ last' = Event("product removed")
    /\ UNCHANGED <<now, posters, activePosterId, isLoading, error,
                   refinementVariations, selectedVariationId, pendingFilters,
                   posterCropModal, generates, refines, modifications,
                   filterLoads, cropLoads, variationsBefore>>
    /\ UNCHANGED intakeVars
    /\ UNCHANGED cropTool

\* The close button of the error banner: onClick={() => setError(null)}
DismissError ==
    /\ error # null
    /\ error' = null
    /\ last' = Event("error dismissed")
    /\ UNCHANGED <<now, products, posters, activePosterId, isLoading,
                   refinementVariations, selectedVariationId, pendingFilters,
                   posterCropModal, generates, refines, modifications,
                   filterLoads, cropLoads, variationsBefore>>
    /\ UNCHANGED intakeVars
    /\ UNCHANGED cropTool

\* ------------------------------------------------------------ specification

Next ==
    \/ \E c \in Concepts, r \in BOOLEAN : handleGenerate(c, r)
    \/ \E g \in 1..MaxInFlight, ok \in BOOLEAN : GenerateReferenceRead(g, ok)
    \/ \E g \in 1..MaxInFlight, ok \in BOOLEAN : GenerateResponse(g, ok)
    \/ \E c \in Concepts : GenerateBlocked(c)
    \/ \E p \in RefinePrompts : handleRefine(p)
    \/ \E p \in RefinePrompts : RefineBlocked(p)
    \/ \E r \in 1..MaxInFlight, leg \in 1..2, o \in LegOutcomes :
           VariationResponse(r, leg, o)
    \/ \E i \in 1..2 : SelectVariation(i)
    \/ handleConfirm
    \/ handleCancel
    \/ \E sc \in Scales : handleUpscale(sc)
    \/ \E d \in ExpandDirections, sz \in ExpandSizes : handleExpand(d, sz)
    \/ \E m \in 1..MaxInFlight, ok \in BOOLEAN : ModificationResponse(m, ok)
    \/ \E f \in FilterInputs : FilterChange(f)
    \/ handleApplyFilters
    \/ \E f \in 1..MaxInFlight : FilterOnload(f)
    \/ \E i \in 1..2 : SelectPoster(i)
    \/ handleOpenPosterCropModal
    \/ CropCancel
    \/ handleApplyCrop
    \/ \E c \in 1..MaxInFlight : handleApplyPosterCrop(c)
    \/ \E files \in FileLists : handleFileSelect(files)
    \/ handleCancelProductCrop
    \/ handleApplyCropOfProduct
    \/ \E c \in 1..MaxInFlight : handleApplyProductCrop(c)
    \/ \E r \in 1..MaxInFlight, ok \in BOOLEAN : RemovalBlobRead(r, ok)
    \/ \E r \in 1..MaxInFlight, ok \in BOOLEAN : RemovalResponse(r, ok)
    \/ \E i \in 1..Len(products) : handleProductRemove(products[i].id)
    \/ DismissError

Spec == Init /\ [][Next]_vars

\* ------------------------------------------- the active id, on its own

\* ------------------------------------- requests that settle in the end

\* The commands that call the image service for a poster, and the completions
\* of their requests.
RequestNext ==
    \/ \E c \in Concepts, r \in BOOLEAN : handleGenerate(c, r)
    \/ \E g \in 1..MaxInFlight, ok \in BOOLEAN : GenerateReferenceRead(g, ok)
    \/ \E g \in 1..MaxInFlight, ok \in BOOLEAN : GenerateResponse(g, ok)
    \/ \E p \in RefinePrompts : handleRefine(p)
    \/ \E r \in 1..MaxInFlight, leg \in 1..2, o \in LegOutcomes :
           VariationResponse(r, leg, o)
    \/ handleConfirm
    \/ handleCancel
    \/ \E sc \in Scales : handleUpscale(sc)
    \/ \E d \in ExpandDirections, sz \in ExpandSizes : handleExpand(d, sz)
    \/ \E m \in 1..MaxInFlight, ok \in BOOLEAN : ModificationResponse(m, ok)
    \/ \E i \in 1..2 : SelectPoster(i)

\* Every pending file read and every request to the image service settles.
RequestsSettle ==
    /\ \A g \in 1..MaxInFlight :
           /\ WF_vars(\E ok \in BOOLEAN : GenerateReferenceRead(g, ok))
           /\ WF_vars(\E ok \in BOOLEAN : GenerateResponse(g, ok))
    /\ \A r \in 1..MaxInFlight, leg \in 1..2 :
           WF_vars(\E o \in LegOutcomes : VariationResponse(r, leg, o))
    /\ \A m \in 1..MaxInFlight :
           WF_vars(\E ok \in BOOLEAN : ModificationResponse(m, ok))

RequestSpec == Init /\ [][RequestNext]_vars /\ RequestsSettle

\* The ids setActivePosterId is called with below: those of the posters
\* poster-1 to poster-4 and one that no poster has.
SetActiveIds == {PosterId(t) : t \in 1..4} \cup {PosterId(9)}

\* The poster a creation at time t pushes (its prompt does not matter here).
PosterAt(t) == [id |-> PosterId(t), src |-> ImageSrc(t), prompt |-> "neon sign"]

\* Histories that pushes at the times 1 to 4 leave: empty, one poster, or two
\* posters with the newer one first.
Histories ==
    {<<>>} \cup {<<PosterAt(t)>> : t \in 1..4}
           \cup UNION {{Prepend(PosterAt(t), <<PosterAt(u)>>) : u \in 1..(t - 1)} :
                        t \in 2..4}

\* The App state with such a history, any of its posters active (none when it
\* is empty) and any pending filters; nothing is in flight.
SetActiveInit ==
    /\ now = 4
    /\ products = <<InitialProduct>>
    /\ posters \in Histories
    /\ activePosterId \in
           IF posters = <<>> THEN {null}
           ELSE {posters[i].id : i \in 1..Len(posters)}
    /\ isLoading = [generating |-> FALSE, modifying |-> FALSE]
    /\ error = null
    /\ refinementVariations = <<>>
    /\ selectedVariationId = null
    /\ pendingFilters \in FilterInputs
    /\ posterCropModal = [isOpen |-> FALSE, src |-> null]
    /\ generates = <<>>
    /\ refines = <<>>
    /\ modifications = <<>>
    /\ filterLoads = <<>>
    /\ cropLoads = <<>>
    /\ uploadQueue = <<>>
    /\ productToCrop = null
    /\ productCropLoads = <<>>
    /\ removals = <<>>
    /\ last = Event("init")
    /\ variationsBefore = NoSnapshot
    /\ cropTool = CropToolMounted(NoRatio)

\* setActivePosterId(id): the state setter that App hands to PosterGallery as
\* onSelect, and the effect that follows a change of the active id.
setActivePosterId(id) ==
    /\ activePosterId' = id
    /\ pendingFilters' = FiltersAfter(id, pendingFilters)
    /\ last' = [Event("active set") EXCEPT !.arg = id]
    /\ UNCHANGED <<now, products, posters, isLoading, error,
                   refinementVariations, selectedVariationId, posterCropModal,
                   generates, refines, modifications, filterLoads, cropLoads,
                   variationsBefore>>
    /\ UNCHANGED intakeVars
    /\ UNCHANGED cropTool

SetActiveNext == \E id \in SetActiveIds : setActivePosterId(id)

\* The setter applied to any id, in any state of the history.
SetActiveSpec == SetActiveInit /\ [][SetActiveNext]_vars


\* ================================================================== claims

\* ---------------------------------------------------------------- crop tool

\* Everything but the crop tool.
appVars == <<now, products, posters, activePosterId, isLoading, error,
             refinementVariations, selectedVariationId, pendingFilters,
             posterCropModal, generates, refines, modifications, filterLoads,
             cropLoads, uploadQueue, productToCrop, productCropLoads, removals,
             last, variationsBefore>>

\* aspectRatios: the values of 1:1, 4:3 and 3:4
Ratios == {Q(1, 1), Q(4, 3), Q(3, 4)}

\* img.naturalWidth and img.naturalHeight of the image under crop
NaturalSize == [width |-> Num(40), height |-> Num(30)]

\* The handles of the crop box.
Handles == {"t", "b", "l", "r", "tl", "tr", "bl", "br"}

\* handle.includes(c)
Includes(handle, c) ==
    CASE c = "t" -> handle \in {"t", "tl", "tr"}
      [] c = "b" -> handle \in {"b", "bl", "br"}
      [] c = "l" -> handle \in {"l", "tl", "bl"}
      [] c = "r" -> handle \in {"r", "tr", "br"}

\* The pointer movements of one interaction, in image pixels:
\* (x - startX) * scaleX and (y - startY) * scaleY.
Deltas == {Num(-20), Num(-6), Num(6), Num(20)}

\* The crop the image load and resetCropToAspectRatio(ratio) set: the largest
\* centred rectangle of the ratio, or the whole image without a ratio.
CropOfRatio(size, ratio) ==
    IF ratio = NoRatio
    THEN [x |-> Num(0), y |-> Num(0), width |-> size.width, height |-> size.height]
    ELSE LET tall == QLess(size.height, QDiv(size.width, ratio))
             newH == IF tall THEN size.height ELSE QDiv(size.width, ratio)
             newW == IF tall THEN QMul(size.height, ratio) ELSE size.width
         IN  [x |-> QDiv(QSub(size.width, newW), Num(2)),
              y |-> QDiv(QSub(size.height, newH), Num(2)),
              width |-> newW, height |-> newH]

\* resetCropToAspectRatio(ratio): nothing while the image size is unknown
resetCropToAspectRatio(ratio) ==
    IF cropTool.imageSize.width = Num(0) \/ cropTool.imageSize.height = Num(0)
    THEN cropTool.crop
    ELSE CropOfRatio(cropTool.imageSize, ratio)

\* The effect on [src, activeAspectRatio]: img.onload
ImageOnload ==
    /\ cropTool.loading
    /\ cropTool' = [cropTool EXCEPT
           !.imageSize = NaturalSize,
           !.crop = CropOfRatio(NaturalSize, cropTool.activeAspectRatio),
           !.loading = FALSE]
    /\ UNCHANGED appVars

\* handleSetAspectRatio(ratio), behind the ratio buttons ({!aspectRatio && ...});
\* a change of activeAspectRatio runs the effect again.
handleSetAspectRatio(ratio) ==
    /\ cropTool.aspectRatio = NoRatio
    /\ cropTool' = [cropTool EXCEPT
           !.activeAspectRatio = ratio,
           !.crop = resetCropToAspectRatio(ratio),
           !.loading = (cropTool.loading \/ ratio # cropTool.activeAspectRatio)]
    /\ UNCHANGED appVars

\* handleReset, behind the reset button next to the ratio buttons
handleReset ==
    /\ cropTool.aspectRatio = NoRatio
    /\ cropTool' = [cropTool EXCEPT
           !.activeAspectRatio = cropTool.aspectRatio,
           !.crop = resetCropToAspectRatio(cropTool.aspectRatio),
           !.loading = (cropTool.loading
                            \/ cropTool.aspectRatio # cropTool.activeAspectRatio)]
    /\ UNCHANGED appVars

\* handleDrag: a pointer move by (deltaX, deltaY) after a press on the crop box
\* (rendered when imageSize.width > 0); startCrop is the crop at the press.
handleDrag(deltaX, deltaY) ==
    /\ QLess(Num(0), cropTool.imageSize.width)
    /\ cropTool.moves < MaxMoves
    /\ LET startCrop == cropTool.crop
           imageSize == cropTool.imageSize
           x1 == QAdd(startCrop.x, deltaX)
           y1 == QAdd(startCrop.y, deltaY)
           x2 == IF QLess(x1, Num(0)) THEN Num(0) ELSE x1
           y2 == IF QLess(y1, Num(0)) THEN Num(0) ELSE y1
           newX == IF QLess(imageSize.width, QAdd(x2, startCrop.width))
                   THEN QSub(imageSize.width, startCrop.width) ELSE x2
           newY == IF QLess(imageSize.height, QAdd(y2, startCrop.height))
                   THEN QSub(imageSize.height, startCrop.height) ELSE y2
       IN  cropTool' = [cropTool EXCEPT !.crop.x = newX, !.crop.y = newY,
                                        !.moves = @ + 1]
    /\ UNCHANGED appVars

\* handleResize, lines 159-174: the movement made to follow the aspect ratio
ResizeDeltas(handle, deltaX, deltaY, aspect) ==
    LET changeX == Includes(handle, "l") \/ Includes(handle, "r")
        changeY == Includes(handle, "t") \/ Includes(handle, "b")
        half == Q(1, 2)
    IN  IF aspect = NoRatio THEN [x |-> deltaX, y |-> deltaY]
        ELSE IF changeX /\ changeY
        THEN IF QLess(QAbs(QMul(deltaY, aspect)), QAbs(deltaX))
             THEN [x |-> deltaX,
                   y |-> QMul(IF Includes(handle, "t") THEN Num(-1) ELSE Num(1),
                              QAbs(QDiv(deltaX, aspect)))]
             ELSE [x |-> QMul(IF Includes(handle, "l") THEN Num(-1) ELSE Num(1),
                              QAbs(QMul(deltaY, aspect))),
                   y |-> deltaY]
        ELSE IF changeX
        THEN [x |-> deltaX,
              y |-> QDiv(QMul(IF Includes(handle, "t") THEN QSub(Num(0), half)
                              ELSE half, deltaX), aspect)]
        ELSE IF changeY
        THEN [x |-> QMul(QMul(IF Includes(handle, "l") THEN QSub(Num(0), half)
                              ELSE half, deltaY), aspect),
              y |-> deltaY]
        ELSE [x |-> deltaX, y |-> deltaY]

\* handleResize, lines 176-184: the rectangle before the boundary checks
Resized(startCrop, handle, d, aspect) ==
    LET newW == IF Includes(handle, "l") THEN QSub(startCrop.width, d.x)
                ELSE IF Includes(handle, "r") THEN QAdd(startCrop.width, d.x)
                ELSE startCrop.width
        newH == IF Includes(handle, "t") THEN QSub(startCrop.height, d.y)
                ELSE IF Includes(handle, "b") THEN QAdd(startCrop.height, d.y)
                ELSE startCrop.height
        newX == IF Includes(handle, "l")
                THEN IF aspect # NoRatio
                     THEN QSub(QAdd(startCrop.x, startCrop.width), newW)
                     ELSE QAdd(startCrop.x, d.x)
                ELSE startCrop.x
        newY == IF Includes(handle, "t")
                THEN IF aspect # NoRatio
                     THEN QSub(QAdd(startCrop.y, startCrop.height), newH)
                     ELSE QAdd(startCrop.y, d.y)
                ELSE startCrop.y
    IN  [x |-> newX, y |-> newY, width |-> newW, height |-> newH]

\* handleResize, line 188: if (newX < 0) {...}
ClipLeft(c, aspect) ==
    IF QLess(c.x, Num(0))
    THEN LET newW == QAdd(c.width, c.x)
         IN  [c EXCEPT !.width = newW, !.x = Num(0),
                       !.height = IF aspect # NoRatio THEN QDiv(newW, aspect) ELSE @]
    ELSE c

\* handleResize, line 189: if (newY < 0) {...}
ClipTop(c, aspect) ==
    IF QLess(c.y, Num(0))
    THEN LET newH == QAdd(c.height, c.y)
         IN  [c EXCEPT !.height = newH, !.y = Num(0),
                       !.width = IF aspect # NoRatio THEN QMul(newH, aspect) ELSE @]
    ELSE c

\* handleResize, line 190: if (newX + newW > imageSize.width) {...}
ClipRight(c, aspect, imageSize) ==
    IF QLess(imageSize.width, QAdd(c.x, c.width))
    THEN LET newW == QSub(imageSize.width, c.x)
         IN  [c EXCEPT !.width = newW,
                       !.height = IF aspect # NoRatio THEN QDiv(newW, aspect) ELSE @]
    ELSE c

\* handleResize, line 191: if (newY + newH > imageSize.height) {...}
ClipBottom(c, aspect, imageSize) ==
    IF QLess(imageSize.height, QAdd(c.y, c.height))
    THEN LET newH == QSub(imageSize.height, c.y)
         IN  [c EXCEPT !.height = newH,
                       !.width = IF aspect # NoRatio THEN QMul(newH, aspect) ELSE @]
    ELSE c

\* handleResize: a pointer move by (deltaX, deltaY) after a press on a handle
handleResize(handle, deltaX, deltaY) ==
    /\ QLess(Num(0), cropTool.imageSize.width)
    /\ cropTool.moves < MaxMoves
    /\ LET aspect == cropTool.activeAspectRatio
           imageSize == cropTool.imageSize
           d == ResizeDeltas(handle, deltaX, deltaY, aspect)
           c0 == Resized(cropTool.crop, handle, d, aspect)
           c4 == ClipBottom(ClipRight(ClipTop(ClipLeft(c0, aspect), aspect),
                                      aspect, imageSize), aspect, imageSize)
       IN  IF QLess(c0.width, Num(10)) \/ QLess(c0.height, Num(10))
           THEN cropTool' = [cropTool EXCEPT !.moves = @ + 1]
           ELSE cropTool' = [cropTool EXCEPT !.crop = c4, !.moves = @ + 1]
    /\ UNCHANGED appVars

\* The App state in which a crop tool is shown: the tool of the queued product
\* file, which is given the poster's aspect ratio, or the tool of the active
\* poster, which is given none.
CropInit ==
    \E ratio \in Ratios \cup {NoRatio} :
        /\ cropTool = CropToolMounted(ratio)
        /\ now = IF ratio = NoRatio THEN 1 ELSE 0
        /\ products = <<InitialProduct>>
        /\ posters = IF ratio = NoRatio THEN <<PosterAt(1)>> ELSE <<>>
        /\ activePosterId = IF ratio = NoRatio THEN PosterId(1) ELSE null
        /\ isLoading = [generating |-> FALSE, modifying |-> FALSE]
        /\ error = null
        /\ refinementVariations = <<>>
        /\ selectedVariationId = null
        /\ pendingFilters = DEFAULT_FILTERS
        /\ posterCropModal = IF ratio = NoRatio
                             THEN [isOpen |-> TRUE, src |-> ImageSrc(1)]
                             ELSE [isOpen |-> FALSE, src |-> null]
        /\ generates = <<>>
        /\ refines = <<>>
        /\ modifications = <<>>
        /\ filterLoads = <<>>
        /\ cropLoads = <<>>
        /\ uploadQueue = IF ratio = NoRatio THEN <<>> ELSE <<"hat.png">>
        /\ productToCrop = IF ratio = NoRatio THEN null ELSE "hat.png"
        /\ productCropLoads = <<>>
        /\ removals = <<>>
        /\ last = Event(IF ratio = NoRatio THEN "crop opened" ELSE "files selected")
        /\ variationsBefore = NoSnapshot

CropNext ==
    \/ ImageOnload
    \/ \E ratio \in Ratios : handleSetAspectRatio(ratio)
    \/ handleReset
    \/ \E dx \in Deltas, dy \in Deltas : handleDrag(dx, dy)
    \/ \E h \in Handles, dx \in Deltas, dy \in Deltas : handleResize(h, dx, dy)

CropSpec == CropInit /\ [][CropNext]_vars

\* Steps that push a newly created version, and steps that push at all.
CreatedEvents ==
    {"generate succeeded", "upscale succeeded", "expand succeeded",
     "adjustments applied", "crop applied"}

PushEvents == CreatedEvents \cup {"refinement confirmed"}

\* Failure completions of the four request kinds.
FailureEvents ==
    {"generate failed", "refine failed", "upscale failed", "expand failed"}

\* A variation request failed: it returned no image or raised an error.
LegFailed(outcome) == outcome \in {"none", "error"}

\* Both variation requests of a refine are known and both failed.
BothFailed(legs) ==
    Len(legs) = 2 /\ LegFailed(legs[1]) /\ LegFailed(legs[2])

\* Both variation requests are known, one produced an image, the other failed.
ExactlyOneFailed(legs) ==
    /\ Len(legs) = 2
    /\ \/ legs[1] = "image" /\ LegFailed(legs[2])
       \/ legs[2] = "image" /\ LegFailed(legs[1])

\* The number of the variation request that produced the image.
Survivor(legs) == IF legs[1] = "image" THEN 1 ELSE 2

\* C1: the history never holds more than two versions; every step that pushes
\* a version leaves that version at position 0 (a created version carries the
\* id made in that step and was not in the history before, a confirmed one is
\* the selected candidate), and no other step changes the history, so the
\* version at position 0 is always the most recently pushed one.
C1_HistoryBounded ==
    [][/\ Len(posters') <= 2
       /\ last'.event \in CreatedEvents =>
             /\ posters'[1].id = PosterId(now')
             /\ \A i \in 1..Len(posters) : posters[i].id # posters'[1].id
       /\ last'.event = "refinement confirmed" =>
             posters'[1].id = selectedVariationId
       /\ last'.event \notin PushEvents => posters' = posters]_vars

\* C1 witness: a third version has been pushed and the first one evicted.
C1_Witness ==
    /\ Len(posters) = 2
    /\ posters[1].id = PosterId(3)
    /\ posters[2].id = PosterId(2)

\* C2: the active id is null or the id of a version in the history.
C2_ActiveInHistory ==
    \/ activePosterId = null
    \/ \E i \in 1..Len(posters) : posters[i].id = activePosterId

\* C2 witness: after an eviction the older of the two remaining versions was
\* made active from the gallery.
C2_Witness ==
    /\ last.event = "poster selected"
    /\ Len(posters) = 2
    /\ posters[1].id = PosterId(3)
    /\ activePosterId = posters[2].id

\* C3: confirming pushes the candidate whose id is selected to position 0,
\* moves the former position 0 to position 1, drops anything older, makes the
\* candidate active and empties the candidate set.
C3_ConfirmPushesSelected ==
    [][last'.event = "refinement confirmed" =>
          /\ \E i \in 1..Len(refinementVariations) :
                /\ refinementVariations[i].id = selectedVariationId
                /\ posters'[1] = refinementVariations[i]
          /\ Len(posters') = (IF Len(posters) = 0 THEN 1 ELSE 2)
          /\ Len(posters) > 0 => posters'[2] = posters[1]
          /\ activePosterId' = selectedVariationId
          /\ refinementVariations' = <<>>]_vars

\* C3 witness: a candidate was confirmed on top of an existing version.
C3_Witness ==
    /\ last.event = "refinement confirmed"
    /\ Len(posters) = 2
    /\ activePosterId = posters[1].id
    /\ refinementVariations = <<>>

\* C4 as stated: cancelling leaves the history and the active id as they were
\* when the refine was requested, whatever happened in between.
C4_CancelRestoresPreRefine ==
    [][last'.event = "refinement cancelled" =>
          /\ posters' = variationsBefore.posters
          /\ activePosterId' = variationsBefore.activePosterId]_vars

\* C4 amended: cancelling empties the candidate set and leaves the history and
\* the active id as they were immediately before the cancel.
C4_CancelChangesNothing ==
    [][last'.event = "refinement cancelled" =>
          /\ refinementVariations' = <<>>
          /\ posters' = posters
          /\ activePosterId' = activePosterId]_vars

\* C4 witness: a candidate set was cancelled with two versions in the history.
C4_Witness ==
    /\ last.event = "refinement cancelled"
    /\ Len(posters) = 2
    /\ activePosterId # null
    /\ refinementVariations = <<>>

\* C5: when exactly one of the two variation requests fails, by returning no
\* image or by raising an error, the refine succeeds with the surviving
\* variation as the only candidate and sets no error.
C5_OneFailureStillSucceeds ==
    [][ExactlyOneFailed(last'.legs) =>
          /\ last'.event = "refine succeeded"
          /\ Len(refinementVariations') = 1
          /\ refinementVariations'[1].src = VariationSrc(now', Survivor(last'.legs))
          /\ error' = error]_vars

C7_OneRequestPerClass ==
    /\ Len(generates) <= 1
    /\ Cardinality({r \in 1..Len(refines) :
                       RefineOutcome(refines[r].legs) = "pending"}) <= 1

\* C8: a failure completion of generate, refine, upscale or expand leaves the
\* history and the active id unchanged and sets one non-empty error message,
\* the one belonging to the request that failed.
C8_FailureLeavesHistory ==
    [][last'.event \in FailureEvents =>
          /\ posters' = posters
          /\ activePosterId' = activePosterId
          /\ error' # null /\ error' # ""
          /\ last'.event = "generate failed" =>
                error' \in {"Failed to generate the poster.",
                            "Failed to generate poster. Please try again."}
          /\ last'.event = "refine failed" =>
                error' = "Failed to refine the poster."
          /\ last'.event = "upscale failed" =>
                error' \in {"Failed to upscale the poster 2x.",
                            "Failed to upscale the poster 4x."}
          /\ last'.event = "expand failed" =>
                error' = "Failed to expand the poster."]_vars

\* C8 witness: an expand request failed with two versions in the history.
C8_Witness ==
    /\ last.event = "expand failed"
    /\ error = "Failed to expand the poster."
    /\ Len(posters) = 2
    /\ activePosterId # null

\* C9: while the candidate set is non-empty, only confirming changes the
\* history or the active id.
C9_ChoosingFreezesHistory ==
    [][Len(refinementVariations) > 0 /\ last'.event # "refinement confirmed" =>
          /\ posters' = posters
          /\ activePosterId' = activePosterId]_vars

\* C10: a refine is settled only once both of its variation requests have
\* completed: no settled refine still has a variation request pending.
C10_RefineWaitsForBoth ==
    \A r \in 1..Len(refines) : RefineOutcome(refines[r].legs) = "pending"


\* C11: the candidates of a refine are the images of its variation requests
\* in the order in which the requests were issued (request 1 before request
\* 2), without the requests that returned no image, whichever request
\* completed first.
C11_CandidatesInIssuedOrder ==
    [][last'.event = "refine succeeded" =>
          /\ Len(refinementVariations') =
                 Cardinality({k \in 1..2 : last'.legs[k] = "image"})
          /\ \A k \in 1..2 :
                 last'.legs[k] = "image" =>
                     \E i \in 1..Len(refinementVariations') :
                         refinementVariations'[i].src = VariationSrc(now', k)
          /\ Len(refinementVariations') = 2 =>
                 /\ refinementVariations'[1].src = VariationSrc(now', 1)
                 /\ refinementVariations'[2].src = VariationSrc(now', 2)
          /\ \A i \in 1..Len(refinementVariations') :
                 refinementVariations'[i].id = VariationId(now', i - 1)]_vars

\* C11 witness: the second request completed first, the first one last, and
\* the image of the first request is still listed first.
C11_Witness ==
    /\ last.event = "refine succeeded"
    /\ last.leg = 1
    /\ Len(refinementVariations) = 2
    /\ refinementVariations[1].src = VariationSrc(now, 1)
    /\ refinementVariations[2].src = VariationSrc(now, 2)


\* The entry at position 0 of a history, as a history of at most one entry.
Head01(h) == IF Len(h) = 0 THEN <<>> ELSE <<h[1]>>

\* C12: every push onto a history H yields the pushed version followed by the
\* entry that was at position 0 of H, if any; the pushed version was not in H
\* and the entry that was at position 1 of H is gone.
C12_PushKeepsFormerHead ==
    [][last'.event \in PushEvents =>
          /\ posters' = <<posters'[1]>> \o Head01(posters)
          /\ \A i \in 1..Len(posters) : posters[i] # posters'[1]
          /\ Len(posters) = 2 =>
                 \A i \in 1..Len(posters') : posters'[i] # posters[2]]_vars

\* C12 witness: an upscale on the history [v2, v1] has yielded [v3, v2].
C12_Witness ==
    /\ last.event = "upscale succeeded"
    /\ Len(posters) = 2
    /\ posters[1].id = PosterId(3)
    /\ posters[1].prompt = "Upscaled 2x"
    /\ posters[2].id = PosterId(2)

\* C13: every successful completion of a generate, upscale or expand request
\* makes the version it produced the active one, whatever version was active
\* or displayed before the completion.
C13_CompletionActivates ==
    [][last'.event \in {"generate succeeded", "upscale succeeded",
                        "expand succeeded"} =>
          /\ activePosterId' = PosterId(now')
          /\ posters'[1].id = activePosterId'
          /\ activePosterId' # activePosterId]_vars

\* C13 witness: an upscale succeeded after another version than the one it
\* was requested for had been selected in the gallery, and its result is
\* active.
C13_Witness ==
    /\ last.event = "upscale succeeded"
    /\ last.stale
    /\ activePosterId = posters[1].id
    /\ activePosterId = PosterId(now)

\* C14: every step that changes the active id leaves the pending filters at
\* the baseline.
C14_ActiveChangeResetsFilters ==
    [][activePosterId' # activePosterId =>
          pendingFilters' = [brightness |-> 100, contrast |-> 100,
                             saturate |-> 100, tint |-> NoTint]]_vars

\* C14 witness: a gallery selection changed the active id while other filters
\* than the baseline were pending, and the baseline is pending now.
C14_Witness ==
    /\ last.event = "poster selected"
    /\ last.filters.brightness = 120
    /\ pendingFilters = DEFAULT_FILTERS
    /\ activePosterId = posters[2].id

\* C15: pressing Apply issues no request to the image service and pushes
\* nothing yet; the load of the image it started pushes exactly one new
\* version, at position 0 and active, issues no request to the image service
\* and leaves the baseline pending.
C15_ApplyIsLocal ==
    [][/\ last'.event = "apply requested" =>
             /\ <<generates', refines', modifications'>>
                    = <<generates, refines, modifications>>
             /\ Len(filterLoads') = Len(filterLoads) + 1
             /\ posters' = posters /\ activePosterId' = activePosterId
       /\ last'.event = "adjustments applied" =>
             /\ <<generates', refines', modifications'>>
                    = <<generates, refines, modifications>>
             /\ Len(filterLoads') = Len(filterLoads) - 1
             /\ posters'[1].id = PosterId(now')
             /\ posters'[1].prompt = "Applied image adjustments"
             /\ SubSeq(posters', 2, Len(posters')) = Head01(posters)
             /\ activePosterId' = posters'[1].id
             /\ pendingFilters' = DEFAULT_FILTERS]_vars

\* C15 witness: the adjustment brightness 120 was applied to an active version.
C15_Witness ==
    /\ last.event = "adjustments applied"
    /\ last.filters.brightness = 120
    /\ Len(posters) = 2
    /\ posters[1].prompt = "Applied image adjustments"
    /\ activePosterId = posters[1].id
    /\ pendingFilters = DEFAULT_FILTERS


\* C16: the displayed poster is the version of the history whose id is the
\* active id when there is one, else the version at position 0, else none; so
\* whenever the history is not empty a version of it is displayed.
C16_DisplayedPosterResolves ==
    LET matches == {i \in 1..Len(posters) : posters[i].id = activePosterId}
    IN  /\ matches # {} =>
               /\ ActivePoster.id = activePosterId
               /\ \E i \in matches : ActivePoster = posters[i]
        /\ matches = {} /\ Len(posters) > 0 => ActivePoster = posters[1]
        /\ Len(posters) = 0 => ActivePoster = NoPoster
        /\ Len(posters) > 0 =>
               /\ ActivePoster # NoPoster
               /\ \E i \in 1..Len(posters) : ActivePoster = posters[i]

\* C16 witness: two versions are in the history and the older one is active
\* and displayed.
C16_Witness ==
    /\ Len(posters) = 2
    /\ activePosterId = posters[2].id
    /\ ActivePoster = posters[2]
    /\ ActivePoster # posters[1]


PendingLegs(r) == Cardinality({k \in 1..2 : refines[r].legs[k] = "pending"})

RECURSIVE PendingLegsUpTo(_)
PendingLegsUpTo(n) == IF n = 0 THEN 0 ELSE PendingLegs(n) + PendingLegsUpTo(n - 1)

ServiceRequests ==
    Cardinality({g \in 1..Len(generates) : generates[g].stage = "service"})
    + PendingLegsUpTo(Len(refines))
    + Len(modifications)
    + Cardinality({r \in 1..Len(removals) : removals[r].stage = "service"})

\* C18: a press of Generate while no product is processed, and a refine
\* command with an empty or blank prompt, issue no service request and leave
\* the poster history, the active id and the in-flight flags as they are; and
\* no step starts a generate call without a processed product or a refine call
\* with a blank prompt.
C18_InvalidCommandsDoNothing ==
    [][/\ last'.event \in {"generate blocked", "refine blocked"} =>
             /\ ServiceRequests' = ServiceRequests
             /\ UNCHANGED <<posters, activePosterId, isLoading, generates,
                            refines, modifications, removals>>
       /\ Len(generates') > Len(generates) => ProcessedProducts # <<>>
       /\ Len(refines') > Len(refines) =>
             Trim(refines'[Len(refines')].prompt) # ""]_vars

\* C18 witness: Generate was pressed while no product is processed, with a
\* poster in the history.
C18_Witness ==
    /\ last.event = "generate blocked"
    /\ ProcessedProducts = <<>>
    /\ Len(posters) > 0
    /\ generates = <<>>

\* The steps in which a command, or its continuation after a local read,
\* calls the image service.
IssuingEvents ==
    {"generate requested", "generate reference read", "refine requested",
     "upscale requested", "expand requested", "removal requested"}

\* The steps in which one request to the image service settles.
SettlingEvents ==
    {"generate succeeded", "refine succeeded", "refine failed",
     "variation awaited", "variation dropped", "upscale succeeded",
     "upscale failed", "expand succeeded", "expand failed",
     "removal succeeded"}

\* C19: nothing is retried.  The number of unsettled service requests grows
\* only in the step of an accepted command (by two for refine, by one for
\* generate, upscale, expand and background removal); a step in which a
\* request settles, with success or failure, takes exactly that request away;
\* a failure of a local read before the request issues none.
C19_NoRetries ==
    [][/\ ServiceRequests' > ServiceRequests =>
             /\ last'.event \in IssuingEvents
             /\ ServiceRequests' - ServiceRequests =
                    (IF last'.event = "refine requested" THEN 2 ELSE 1)
       /\ last'.event \in IssuingEvents \ {"generate requested"} =>
             ServiceRequests' > ServiceRequests
       /\ last'.event = "generate requested" =>
             ServiceRequests' - ServiceRequests =
                (IF generates'[Len(generates')].stage = "service" THEN 1 ELSE 0)
       /\ last'.event \in SettlingEvents =>
             ServiceRequests' = ServiceRequests - 1
       /\ last'.event \in {"generate failed", "removal failed"} =>
             /\ ServiceRequests' \in {ServiceRequests - 1, ServiceRequests}
             /\ Len(generates') + Len(removals')
                    = Len(generates) + Len(removals) - 1]_vars

\* C19 witness: an upscale failed and no request is left unsettled.
C19_Witness ==
    /\ last.event = "upscale failed"
    /\ ServiceRequests = 0
    /\ isLoading = [generating |-> FALSE, modifying |-> FALSE]

\* C20: the step that adds a cropped product appends one product with
\* processed unset and isProcessing true; the step that settles its background
\* removal clears isProcessing of that product and sets processed exactly when
\* the removal succeeded; a failure leaves processed unset and sets an error
\* message.  No other product changes in these steps.
C20_ProductIntake ==
    [][/\ last'.event = "product added" =>
             /\ Len(products') = Len(products) + 1
             /\ SubSeq(products', 1, Len(products)) = products
             /\ products'[Len(products')].processed = null
             /\ products'[Len(products')].isProcessing
       /\ last'.event \in {"removal succeeded", "removal failed"} =>
             /\ Len(products') = Len(products)
             /\ \A i \in 1..Len(products) :
                    IF products[i].id = last'.arg
                    THEN /\ products'[i].id = products[i].id
                         /\ ~products'[i].isProcessing
                         /\ (products'[i].processed # null)
                                <=> (last'.event = "removal succeeded")
                    ELSE products'[i] = products[i]
       /\ last'.event = "removal succeeded" => error' = error
       /\ last'.event = "removal failed" =>
             error' \in {"Failed to process image: " \o f[1] : f \in FileLists}]_vars

\* C20 witness: the background removal of an added product failed; the product
\* is still listed, without a processed image and no longer processing.
C20_Witness ==
    /\ last.event = "removal failed"
    /\ error = "Failed to process image: hat.png"
    /\ \E i \in 1..Len(products) :
           /\ products[i].id = last.arg
           /\ products[i].processed = null
           /\ ~products[i].isProcessing

\* C21: the step that confirms a poster crop issues no image-service request,
\* pushes exactly one new version, which becomes the active one, and leaves
\* the poster crop modal closed; the press of Apply before it changes neither
\* the history nor the requests.
C21_PosterCropIsLocal ==
    [][/\ last'.event = "crop applied" =>
             /\ ServiceRequests' = ServiceRequests
             /\ Len(posters') = Len(Slice01(posters)) + 1
             /\ SubSeq(posters', 2, Len(posters')) = Slice01(posters)
             /\ FindIndex(posters, posters'[1].id) = 0
             /\ posters'[1].prompt = "Cropped image"
             /\ activePosterId' = posters'[1].id
             /\ posterCropModal' = [isOpen |-> FALSE, src |-> null]
       /\ last'.event = "crop requested" =>
             /\ ServiceRequests' = ServiceRequests
             /\ UNCHANGED <<posters, activePosterId>>]_vars

\* C21 witness: a crop of a poster was confirmed; the cropped version heads a
\* history of two and is active, and the modal is closed.
C21_Witness ==
    /\ last.event = "crop applied"
    /\ Len(posters) = 2
    /\ posters[1].prompt = "Cropped image"
    /\ activePosterId = posters[1].id
    /\ ~posterCropModal.isOpen

\* The ids of a list of products, in order.
ProductIds(ps) == [i \in 1..Len(ps) |-> ps[i].id]

\* C22: in every step, a product that stays listed keeps its processed image
\* once it has one, and does not change at all once its processing has ended;
\* a removal by id takes exactly one product away and leaves the others as
\* they are, in order; the step in which a background removal settles lists
\* the same products as before, so a product removed meanwhile stays removed.
C22_ProcessedWrittenOnce ==
    [][/\ \A i \in 1..Len(products), j \in 1..Len(products') :
              products'[j].id = products[i].id =>
                  /\ products[i].processed # null =>
                         products'[j].processed = products[i].processed
                  /\ ~products[i].isProcessing => products'[j] = products[i]
       /\ last'.event = "product removed" =>
              \E i \in 1..Len(products) : products' = Without(products, i)
       /\ last'.event \in {"removal succeeded", "removal failed"} =>
              ProductIds(products') = ProductIds(products)
       /\ ~(last'.event \in {"product removed", "product added",
                             "removal succeeded", "removal failed"}) =>
              products' = products]_vars

\* C22 witness: a background removal succeeded after its product had been
\* removed from the list; the product is not listed.
C22_Witness ==
    /\ last.event = "removal succeeded"
    /\ \A i \in 1..Len(products) : products[i].id # last.arg

\* C27: a file leaves the upload queue only in the step of a confirm or a
\* cancel of the crop that presents it, one file per step; the step that
\* creates a product is taken while a file is under crop and takes exactly
\* that file off the queue; a cancel creates no product; and whenever the
\* queue is not empty its first file is the one under crop.
C27_CropSettlesFileUnderCrop ==
    [][/\ last'.event = "product added" =>
             /\ productToCrop # null
             /\ uploadQueue # <<>>
             /\ productToCrop = uploadQueue[1]
             /\ uploadQueue' = Slice1(uploadQueue)
             /\ Len(products') = Len(products) + 1
       /\ last'.event = "product crop cancelled" =>
             /\ uploadQueue' = Slice1(uploadQueue)
             /\ products' = products
       /\ Len(uploadQueue') < Len(uploadQueue) =>
             last'.event \in {"product added", "product crop cancelled"}
       /\ uploadQueue' # <<>> => productToCrop' = uploadQueue'[1]]_vars

\* C23: isLoading.modifying is true in every state in which a refine, upscale
\* or expand call has not settled, and isLoading.generating is true in every
\* state in which a generate call has not settled.
C23_FlagsTrackRequests ==
    /\ (\/ modifications # <<>>
        \/ \E r \in 1..Len(refines) : RefineOutcome(refines[r].legs) = "pending")
           => isLoading.modifying
    /\ generates # <<>> => isLoading.generating

\* No generate, refine, upscale or expand call is waiting for the service.
NothingOutstanding ==
    /\ generates = <<>>
    /\ modifications = <<>>
    /\ \A r \in 1..Len(refines) : RefineOutcome(refines[r].legs) # "pending"

\* C24: when every request settles, a state with an in-flight flag set leads
\* to a state in which both flags are clear; and in no state is a flag set
\* while no call is waiting for the service.
C24_FlagsClearInTheEnd ==
    /\ [](NothingOutstanding =>
              isLoading = [generating |-> FALSE, modifying |-> FALSE])
    /\ (isLoading.generating \/ isLoading.modifying)
           ~> (~isLoading.generating /\ ~isLoading.modifying)

\* C24 witness: a generate call failed; no call is waiting and both flags are
\* clear, so Generate can be pressed again.
C24_Witness ==
    /\ last.event = "generate failed"
    /\ NothingOutstanding
    /\ isLoading = [generating |-> FALSE, modifying |-> FALSE]
    /\ CanGenerate("neon sign")

\* C25: after a successful upscale, expand or apply of adjustments, the
\* version the new one was made from is the second entry of the history.
C25_SourceStaysInHistory ==
    [][/\ last'.event \in {"upscale succeeded", "expand succeeded"} =>
             \E m \in 1..Len(modifications) :
                 /\ modifications' = Without(modifications, m)
                 /\ Len(posters') = 2
                 /\ posters'[2].src = modifications[m].fn.base
       /\ last'.event = "adjustments applied" =>
             \E f \in 1..Len(filterLoads) :
                 /\ filterLoads' = Without(filterLoads, f)
                 /\ Len(posters') = 2
                 /\ posters'[2].src = filterLoads[f].base]_vars

\* C26: while variations are shown, a selected id is the id of one of them;
\* and after a confirm or a cancel nothing is selected.
C26_SelectionIsCandidate ==
    /\ (Len(refinementVariations) > 0 /\ selectedVariationId # null)
           => FindIndex(refinementVariations, selectedVariationId) > 0
    /\ last.event \in {"refinement confirmed", "refinement cancelled"}
           => (refinementVariations = <<>> /\ selectedVariationId = null)

\* The steps of the commands that work on the active version.
ActiveVersionCommands ==
    {"refine requested", "refine ignored", "upscale requested",
     "upscale ignored", "expand requested", "expand ignored",
     "apply requested", "apply ignored", "crop opened", "crop ignored"}

\* C28: in a state in which no version has the active id, a refine, upscale,
\* expand, apply-adjustment or open-crop command issues no request and starts
\* no image load, and leaves the history, the active id, the in-flight flags,
\* the error, the variations and the crop modal as they are.
C28_NoActiveVersionNoOp ==
    [][(FindIndex(posters, activePosterId) = 0
            /\ last'.event \in ActiveVersionCommands) =>
          /\ ServiceRequests' = ServiceRequests
          /\ UNCHANGED <<posters, activePosterId, isLoading, error,
                         refinementVariations, refines, modifications,
                         filterLoads, posterCropModal>>]_vars

\* C28 witness: an upscale was asked for with an empty history and was ignored.
C28_Witness ==
    /\ last.event = "upscale ignored"
    /\ posters = <<>>
    /\ activePosterId = null
    /\ modifications = <<>>

\* C29: once the image has loaded and while an aspect ratio is active, the crop
\* rectangle has width = height x ratio.
C29_CropKeepsRatio ==
    (QLess(Num(0), cropTool.imageSize.width)
         /\ cropTool.activeAspectRatio # NoRatio)
        => cropTool.crop.width
               = QMul(cropTool.crop.height, cropTool.activeAspectRatio)

\* C30: once the image has loaded, the crop rectangle lies inside the image
\* and is not empty.
C30_CropInsideImage ==
    QLess(Num(0), cropTool.imageSize.width) =>
        LET c == cropTool.crop
            size == cropTool.imageSize
        IN  /\ ~QLess(c.x, Num(0))
            /\ ~QLess(c.y, Num(0))
            /\ ~QLess(size.width, QAdd(c.x, c.width))
            /\ ~QLess(size.height, QAdd(c.y, c.height))
            /\ QLess(Num(0), c.width)
            /\ QLess(Num(0), c.height)

====
